---------------------------- MODULE Spec2Model ----------------------------
(***************************************************************************)
(* Model of the network behaviour graph analyzer of the IoT ML engine      *)
(* (src/ml-engine/network_graph_analyzer.py) and of the HTTP endpoint that *)
(* serves it (src/ml-engine/app.py, POST /api/ml/network/analyze).         *)
(*                                                                         *)
(* Numbers.  Telemetry numbers are naturals; NaN (a missing or unparseable *)
(* number) is the value NaNum.  A float the code computes is kept exact as *)
(* a fraction <<n, d>> (edge weights, betweenness) or as n / 2^k (the      *)
(* two-point averages).  Timestamps are seconds; NaT is the value NaT.     *)
(* Strings.  A device id is a string; the Python objects None and NaN in   *)
(* an id column are the values NoneV and NaNV, and str() of them is what   *)
(* Python prints.  strip() and lower() are tabulated on the strings the    *)
(* inputs are drawn from.                                                  *)
(***************************************************************************)
EXTENDS Integers, Sequences, FiniteSets, Bags, TLC

VARIABLES
    requests,   \* the batches the callers still submit, in order
    cfg,        \* the analyzer's constructor arguments
    graph,      \* self.graph
    edge_agg,   \* self.edge_agg
    pc,         \* position inside analyze_network
    batch,      \* the DataFrame of the running call
    res,        \* the locals of analyze_network: one result per detector
    response,   \* what the last finished call returned
    calls       \* number of finished calls on this analyzer

vars == <<requests, cfg, graph, edge_agg, pc, batch, res, response, calls>>

---------------------------------------------------------------------------
(* Values *)

NaNum == -1
NaT == -1
NoneV == "<None>"
NaNV == "<NaN>"
Now == 100

Min(a, b) == IF a <= b THEN a ELSE b
Max(a, b) == IF a >= b THEN a ELSE b

\* str(x) of an id cell
StrOf(v) == CASE v = NoneV -> "None" [] v = NaNV -> "nan" [] OTHER -> v

\* s.strip() on the strings of the model
Strip(s) ==
    CASE s = " a" -> "a"
      [] s = " b" -> "b"
      [] s = "  " -> ""
      [] s = " Anomaly " -> "Anomaly"
      [] OTHER -> s

\* s.lower() on the strings of the model
Lower(s) ==
    CASE s = "Normal" -> "normal"
      [] s = "Anomaly" -> "anomaly"
      [] s = "Unknown" -> "unknown"
      [] s = "DoS" -> "dos"
      [] OTHER -> s

\* Python truthiness of an id cell: None and "" are false, NaN is true
Truthy(v) == v # NoneV /\ v # ""

\* s1 == s2 on two id cells: NaN equals nothing, itself included
SameCell(s1, s2) == s1 = s2 /\ s1 # NaNV

\* _safe_num: NaN gives the default 0.0
SafeNum(x) == IF x = NaNum THEN 0 ELSE x

\* _to_dt followed by fillna(now) (line 120)
NormTs(t) == IF t = NaT THEN Now ELSE t

\* fractions <<n, d>> with d > 0, compared in lowest terms
RECURSIVE Gcd(_, _)
Gcd(a, b) == IF b = 0 THEN a ELSE Gcd(b, a % b)

FracNorm(p) == LET g == Gcd(p[1], p[2]) IN IF g = 0 THEN <<0, 1>> ELSE <<p[1] \div g, p[2] \div g>>

FracLe(p, q) == FracNorm(p)[1] * FracNorm(q)[2] <= FracNorm(q)[1] * FracNorm(p)[2]
FracEq(p, q) == FracNorm(p)[1] * FracNorm(q)[2] = FracNorm(q)[1] * FracNorm(p)[2]
FracMax(p, q) == IF FracLe(q, p) THEN p ELSE q

\* _is_anomalous_label
IsAnomalousLabel(row) ==
    IF row.is_anomalous # "NA" THEN row.is_anomalous = "True"
    ELSE IF row.is_anomaly # "NA" THEN row.is_anomaly = "True"
    ELSE LET lbl == Lower(Strip(StrOf(row.label)))
             a == Lower(Strip(StrOf(row.attack_label)))
         IN  IF lbl \in {"anomaly", "anomalous", "attack", "malicious"} THEN TRUE
             ELSE IF lbl \in {"normal", "ok", "benign"} THEN FALSE
             ELSE a # "" /\ a # "normal"

---------------------------------------------------------------------------
(* The graph: nodes and edges in insertion order, as networkx keeps them *)

EmptyGraph == [nodes |-> <<>>, nattr |-> <<>>, edges |-> <<>>, eattr |-> <<>>]

SeqToSet(s) == {s[i] : i \in DOMAIN s}
NodeSet(G) == SeqToSet(G.nodes)
EdgeSet(G) == SeqToSet(G.edges)
HasEdge(G, u, v) == <<u, v>> \in EdgeSet(G)

\* a node that add_edge created has an empty attribute dict
NoAttrs ==
    [has |-> FALSE, device_type |-> "unknown", is_anomalous |-> FALSE,
     avg_cpu |-> <<0, 0>>, avg_memory |-> <<0, 0>>, total_traffic |-> 0,
     last_seen |-> 0]

\* G.add_node(n, **attrs) for a node not yet in G
AddNode(G, n, attrs) ==
    [G EXCEPT !.nodes = Append(G.nodes, n), !.nattr = (n :> attrs) @@ G.nattr]

\* the implicit node creation of G.add_edge
EnsureNode(G, n) == IF n \in NodeSet(G) THEN G ELSE AddNode(G, n, NoAttrs)

\* (old + new) / 2.0 on n / 2^k
RECURSIVE Pow2(_)
Pow2(e) == IF e = 0 THEN 1 ELSE 2 * Pow2(e - 1)

Halve(avg, x) == <<avg[1] + x * Pow2(avg[2]), avg[2] + 1>>

\* a faulty upsert whose flag follows the latest event of the device
NodeUpsertLatest(G, row) ==
    LET device_id == Strip(StrOf(row.device_id))
        traffic == SafeNum(row.network_in_kb) + SafeNum(row.network_out_kb)
        ts == NormTs(row.timestamp)
    IN  IF device_id = "" THEN G
        ELSE IF device_id \notin NodeSet(G) THEN
            AddNode(G, device_id,
                [has |-> TRUE, device_type |-> row.device_type,
                 is_anomalous |-> IsAnomalousLabel(row),
                 avg_cpu |-> <<SafeNum(row.cpu_usage), 0>>,
                 avg_memory |-> <<SafeNum(row.memory_usage), 0>>,
                 total_traffic |-> traffic, last_seen |-> ts])
        ELSE LET n == G.nattr[device_id]
             IN  [G EXCEPT !.nattr[device_id] =
                    [has |-> TRUE, device_type |-> n.device_type,
                     is_anomalous |-> IsAnomalousLabel(row),
                     avg_cpu |-> Halve(n.avg_cpu, SafeNum(row.cpu_usage)),
                     avg_memory |-> Halve(n.avg_memory, SafeNum(row.memory_usage)),
                     total_traffic |-> n.total_traffic + traffic,
                     last_seen |-> Max(n.last_seen, ts)]]

\* lines 131-148: one row of the node pass
NodeUpsert(G, row) ==
    LET device_id == Strip(StrOf(row.device_id))
        traffic == SafeNum(row.network_in_kb) + SafeNum(row.network_out_kb)
        ts == NormTs(row.timestamp)
    IN  IF device_id = "" THEN G
        ELSE IF device_id \notin NodeSet(G) THEN
            AddNode(G, device_id,
                [has |-> TRUE, device_type |-> row.device_type,
                 is_anomalous |-> IsAnomalousLabel(row),
                 avg_cpu |-> <<SafeNum(row.cpu_usage), 0>>,
                 avg_memory |-> <<SafeNum(row.memory_usage), 0>>,
                 total_traffic |-> traffic, last_seen |-> ts])
        ELSE LET n == G.nattr[device_id]
             IN  [G EXCEPT !.nattr[device_id] =
                    [has |-> TRUE, device_type |-> n.device_type,
                     is_anomalous |-> n.is_anomalous \/ IsAnomalousLabel(row),
                     avg_cpu |-> Halve(n.avg_cpu, SafeNum(row.cpu_usage)),
                     avg_memory |-> Halve(n.avg_memory, SafeNum(row.memory_usage)),
                     total_traffic |-> n.total_traffic + traffic,
                     last_seen |-> Max(n.last_seen, ts)]]

\* A loop of the code finishes one iteration before it starts the next.  An
\* operator's argument is evaluated where it is first read, so each loop
\* below reads the value its last iteration left before it goes on.
Reached(v) == v = v

RECURSIVE NodePass(_, _, _)
NodePass(G, rows, i) ==
    IF Reached(G) /\ i <= Len(rows)
    THEN NodePass(NodeUpsert(G, rows[i]), rows, i + 1) ELSE G

---------------------------------------------------------------------------
(* Edges *)

NewAgg(edge_type) ==
    [count |-> 0, total_packets |-> 0, total_out_kb |-> 0, total_in_kb |-> 0,
     last_seen |-> NaT, edge_type |-> edge_type]

\* a faulty merge that keeps only the latest event of an edge
MergeAggLatest(agg, key, row, edge_type) ==
    [count |-> 1,
     total_packets |-> SafeNum(row.packet_rate),
     total_out_kb |-> SafeNum(row.network_out_kb),
     total_in_kb |-> SafeNum(row.network_in_kb),
     last_seen |-> NormTs(row.timestamp),
     edge_type |-> edge_type]

\* lines 211-218: the aggregate of key after one more merge.  The aggregate
\* is looked up in self.edge_agg, which the analyzer keeps between builds.
MergeAgg(agg, key, row, edge_type) ==
    LET old == IF key \in DOMAIN agg THEN agg[key] ELSE NewAgg(edge_type)
        ts == NormTs(row.timestamp)
    IN  [count |-> old.count + 1,
         total_packets |-> old.total_packets + SafeNum(row.packet_rate),
         total_out_kb |-> old.total_out_kb + SafeNum(row.network_out_kb),
         total_in_kb |-> old.total_in_kb + SafeNum(row.network_in_kb),
         last_seen |-> IF old.last_seen = NaT THEN ts ELSE Max(old.last_seen, ts),
         edge_type |-> edge_type]

\* a faulty merge that leaves an existing edge its first type
EdgeAttrsFirstType(G, key, a, weight) ==
    [weight |-> IF key \in EdgeSet(G) THEN FracMax(G.eattr[key].weight, weight)
                ELSE weight,
     count |-> a.count,
     total_packets |-> a.total_packets,
     total_out_kb |-> a.total_out_kb,
     last_seen |-> a.last_seen,
     type |-> IF key \in EdgeSet(G) THEN G.eattr[key].type ELSE a.edge_type]

\* lines 221-239: the attributes of the graph edge after the merge
EdgeAttrs(G, key, a, weight) ==
    [weight |-> IF key \in EdgeSet(G) THEN FracMax(G.eattr[key].weight, weight)
                ELSE weight,
     count |-> a.count,
     total_packets |-> a.total_packets,
     total_out_kb |-> a.total_out_kb,
     last_seen |-> a.last_seen,
     type |-> a.edge_type]

\* _add_or_update_edge on st = [G, agg]
AddOrUpdateEdge(st, src, dst, row, edge_type, weight) ==
    LET key == <<src, dst>>
        a == MergeAgg(st.agg, key, row, edge_type)
        G == st.G
        G2 == IF key \in EdgeSet(G) THEN G
              ELSE LET Gn == EnsureNode(EnsureNode(G, src), dst)
                   IN  [Gn EXCEPT !.edges = Append(Gn.edges, key)]
    IN  [G |-> [G2 EXCEPT !.eattr = (key :> EdgeAttrs(G, key, a, weight)) @@ G2.eattr],
         agg |-> (key :> a) @@ st.agg]

\* "comm_target" in df.columns: pandas makes the column when some record
\* carries the key
HasCommTargetColumn(rows) == \E i \in DOMAIN rows : rows[i].comm_target # "<absent>"

\* row.get("comm_target", None): a record without the key reads NaN in a
\* frame that has the column
CommTargetCell(rows, i) ==
    IF rows[i].comm_target = "<absent>" THEN NaNV ELSE rows[i].comm_target

\* lines 152-171: one row of the explicit pass
ExplicitRow(st, rows, i) ==
    LET row == rows[i]
        src == Strip(StrOf(row.device_id))
        cell == CommTargetCell(rows, i)
        dst == Strip(StrOf(cell))
    IN  IF cell = NoneV THEN st
        ELSE IF src = "" \/ dst = "" \/ src = dst THEN st
        ELSE LET G1 == IF dst \in NodeSet(st.G) THEN st.G
                       ELSE AddNode(st.G, dst,
                              [has |-> TRUE, device_type |-> "unknown",
                               is_anomalous |-> FALSE, avg_cpu |-> <<0, 0>>,
                               avg_memory |-> <<0, 0>>, total_traffic |-> 0,
                               last_seen |-> NormTs(row.timestamp)])
             IN  AddOrUpdateEdge([st EXCEPT !.G = G1], src, dst, row, "explicit", <<1, 1>>)

RECURSIVE ExplicitPass(_, _, _)
ExplicitPass(st, rows, i) ==
    IF Reached(st) /\ i <= Len(rows)
    THEN ExplicitPass(ExplicitRow(st, rows, i), rows, i + 1) ELSE st

\* _calculate_communication_likelihood as a fraction:
\* 0.75 * min/max + 0.25 * min((pkt1 + pkt2) / 2000, 1)
Likelihood(d1, d2) ==
    LET net_out1 == SafeNum(d1.network_out_kb)
        net_in2 == SafeNum(d2.network_in_kb)
        mn == Min(net_out1, net_in2)
        mx == Max(net_out1, net_in2)
        pb == Min(SafeNum(d1.packet_rate) + SafeNum(d2.packet_rate), 2000)
    IN  IF net_out1 < 250 \/ net_in2 < 250 THEN <<0, 1>>
        ELSE <<6000 * mn + pb * mx, 8000 * mx>>

\* df.sort_values("timestamp"): insertion sort, which is what the sort does
\* on frames this small; rows with equal timestamps keep their order
RECURSIVE InsertByTs(_, _)
InsertByTs(sorted, row) ==
    IF sorted = <<>> THEN <<row>>
    ELSE LET last == sorted[Len(sorted)]
         IN  IF NormTs(last.timestamp) <= NormTs(row.timestamp)
             THEN Append(sorted, row)
             ELSE Append(InsertByTs(SubSeq(sorted, 1, Len(sorted) - 1), row), last)

\* the frame left in arrival order
SortByTsNone(sorted, rows, i) == rows

RECURSIVE SortByTs(_, _, _)
SortByTs(sorted, rows, i) ==
    IF Reached(sorted) /\ i <= Len(rows)
    THEN SortByTs(InsertByTs(sorted, rows[i]), rows, i + 1) ELSE sorted

\* lines 187-198: one pair (r1, r2) of the inference scan
InferPair(c, st, r1, r2) ==
    LET s1 == r1.device_id
        s2 == r2.device_id
        score_12 == Likelihood(r1, r2)
        score_21 == Likelihood(r2, r1)
        st1 == IF FracLe(c.inference_threshold, score_12)
               THEN AddOrUpdateEdge(st, StrOf(s1), StrOf(s2), r1, "inferred", score_12)
               ELSE st
    IN  IF ~Truthy(s1) \/ ~Truthy(s2) \/ SameCell(s1, s2) THEN st
        ELSE IF FracLe(c.inference_threshold, score_21)
             THEN AddOrUpdateEdge(st1, StrOf(s2), StrOf(s1), r2, "inferred", score_21)
             ELSE st1

\* lines 180-198: the inner scan, which stops at the first row past the window
RECURSIVE InferInner(_, _, _, _, _)
InferInner(c, st, rows, i, j) ==
    IF ~Reached(st) \/ j > Len(rows) THEN st
    ELSE IF NormTs(rows[j].timestamp) - NormTs(rows[i].timestamp)
                > c.inference_time_window_sec THEN st
    ELSE InferInner(c, InferPair(c, st, rows[i], rows[j]), rows, i, j + 1)

RECURSIVE InferOuter(_, _, _, _)
InferOuter(c, st, rows, i) ==
    IF Reached(st) /\ i <= Len(rows)
    THEN InferOuter(c, InferInner(c, st, rows, i, i + 1), rows, i + 1) ELSE st

\* build_communication_graph: the new graph and the edge aggregates after it
BuildCommunicationGraph(c, agg, rows) ==
    LET G0 == NodePass(EmptyGraph, rows, 1)
        st0 == [G |-> G0, agg |-> agg]
        st1 == IF c.use_comm_target /\ HasCommTargetColumn(rows)
               THEN ExplicitPass(st0, rows, 1) ELSE st0
    IN  IF c.inference_enabled
        THEN InferOuter(c, st1, SortByTs(<<>>, rows, 1), 1)
        ELSE st1

---------------------------------------------------------------------------
(* Reading the graph *)

NumNodes(G) == Len(G.nodes)
NumEdges(G) == Len(G.edges)
OutDegree(G, n) == Cardinality({e \in EdgeSet(G) : e[1] = n})
InDegree(G, n) == Cardinality({e \in EdgeSet(G) : e[2] = n})

\* G.succ[v] and G.pred[v], in the order the edges were added
Adjacent(G, v, forward, i) ==
    LET es == SelectSeq(SubSeq(G.edges, i, Len(G.edges)),
                        LAMBDA e : IF forward THEN e[1] = v ELSE e[2] = v)
    IN  [k \in DOMAIN es |-> IF forward THEN es[k][2] ELSE es[k][1]]

Successors(G, v) == Adjacent(G, v, TRUE, 1)
Predecessors(G, v) == Adjacent(G, v, FALSE, 1)

\* [n for n in self.graph.nodes if ...get("is_anomalous", False)]
RECURSIVE AnomalousFrom(_, _)
AnomalousFrom(G, i) ==
    IF i > Len(G.nodes) THEN <<>>
    ELSE IF G.nattr[G.nodes[i]].is_anomalous
         THEN <<G.nodes[i]>> \o AnomalousFrom(G, i + 1)
         ELSE AnomalousFrom(G, i + 1)

\* a faulty reading that takes every node for anomalous
EveryNodeAnomalous(G) == G.nodes

AnomalousNodes(G) == AnomalousFrom(G, 1)

\* round(n / d, 3) in thousandths and round(n / d, 2) in hundredths:
\* to nearest, a tie to the even digit
RoundTo(n, d, scale) ==
    LET q == (scale * n) \div d
        r == (scale * n) % d
    IN  IF 2 * r < d THEN q
        ELSE IF 2 * r > d THEN q + 1
        ELSE IF q % 2 = 0 THEN q ELSE q + 1

---------------------------------------------------------------------------
(* detect_botnet_patterns *)

\* the threshold with the quarter rounded to nearest: max(3, round(0.25 * N))
C2ThresholdRounded(N) == Max(3, RoundTo(N, 4, 1))

\* max(3, int(0.25 * N))
C2Threshold(N) == Max(3, N \div 4)

\* a faulty test that asks for more than the threshold
IsC2CandidateStrict(G, node) ==
    LET out_ == OutDegree(G, node)
        in_ == InDegree(G, node)
    IN  out_ > Max(3, NumNodes(G) \div 4) /\ out_ > 2 * (in_ + 1)

\* line 294
IsC2Candidate(G, node) ==
    LET out_ == OutDegree(G, node)
        in_ == InDegree(G, node)
    IN  out_ >= C2Threshold(NumNodes(G)) /\ out_ > 2 * (in_ + 1)

\* lines 289-303
RECURSIVE C2Candidates(_, _)
C2Candidates(G, i) ==
    IF i > Len(G.nodes) THEN <<>>
    ELSE LET node == G.nodes[i]
         IN  IF IsC2Candidate(G, node)
             THEN <<[device_id |-> node,
                     out_connections |-> OutDegree(G, node),
                     in_connections |-> InDegree(G, node),
                     c2_score |-> RoundTo(OutDegree(G, node), Max(NumNodes(G), 1), 1000)]>>
                  \o C2Candidates(G, i + 1)
             ELSE C2Candidates(G, i + 1)

NoBotnet ==
    [botnet_detected |-> FALSE, c2_candidates |-> <<>>, recruited_devices |-> {},
     confidence |-> 0]

\* the returned dict; confidence in hundredths, recruited_devices (a sorted
\* list in the code) as the set it lists
BotnetResults(G) ==
    IF NumNodes(G) < 4 THEN NoBotnet
    ELSE LET cands == C2Candidates(G, 1)
             ids == {cands[i].device_id : i \in DOMAIN cands}
         IN  IF cands = <<>> THEN NoBotnet
             ELSE [botnet_detected |-> TRUE, c2_candidates |-> cands,
                   recruited_devices |-> {e[2] : e \in {x \in EdgeSet(G) : x[1] \in ids}},
                   confidence |-> 85]

\* a faulty call that leaves the edge types as they were
BotnetRelabelNone(G) == G

\* a faulty call that also restarts the count of the edges it labels
BotnetRelabelCount(G) ==
    LET cands == BotnetResults(G).c2_candidates
        ids == {cands[i].device_id : i \in DOMAIN cands}
    IN  [G EXCEPT !.eattr = [e \in DOMAIN G.eattr |->
            IF e[1] \in ids THEN [G.eattr[e] EXCEPT !.type = "c2", !.count = 0]
            ELSE G.eattr[e]]]

\* lines 309-314: the graph after the call
BotnetRelabel(G) ==
    LET cands == BotnetResults(G).c2_candidates
        ids == {cands[i].device_id : i \in DOMAIN cands}
    IN  [G EXCEPT !.eattr = [e \in DOMAIN G.eattr |->
            IF e[1] \in ids THEN [G.eattr[e] EXCEPT !.type = "c2"] ELSE G.eattr[e]]]

---------------------------------------------------------------------------
(* nx.shortest_path(G, src, dst): networkx's bidirectional breadth-first   *)
(* search.  S = [pred, succ, ff, rf, w]: the two search trees (NoneV marks *)
(* a root), the two fringes, and the meeting node once found (else NoneV). *)

\* the forward step on neighbour w of v: w joins the tree and the fringe when
\* it is new, and the search ends when the other tree holds it
ForwardVisit(S, v, w) ==
    IF w \notin DOMAIN S.pred
    THEN [S EXCEPT !.ff = Append(@, w), !.pred = (w :> v) @@ @,
                   !.w = IF w \in DOMAIN S.succ THEN w ELSE NoneV]
    ELSE [S EXCEPT !.w = IF w \in DOMAIN S.succ THEN w ELSE NoneV]

ReverseVisit(S, v, w) ==
    IF w \notin DOMAIN S.succ
    THEN [S EXCEPT !.rf = Append(@, w), !.succ = (w :> v) @@ @,
                   !.w = IF w \in DOMAIN S.pred THEN w ELSE NoneV]
    ELSE [S EXCEPT !.w = IF w \in DOMAIN S.pred THEN w ELSE NoneV]

\* one level: the nodes v of the level in order, the neighbours nb of each in
\* adjacency order
RECURSIVE ScanLevel(_, _, _, _, _, _, _)
ScanLevel(G, S, forward, level, vi, nb, wi) ==
    IF S.w # NoneV \/ vi > Len(level) THEN S
    ELSE IF wi > Len(nb)
         THEN IF vi = Len(level) THEN S
              ELSE ScanLevel(G, S, forward, level, vi + 1,
                             Adjacent(G, level[vi + 1], forward, 1), 1)
    ELSE ScanLevel(G, IF forward THEN ForwardVisit(S, level[vi], nb[wi])
                      ELSE ReverseVisit(S, level[vi], nb[wi]),
                   forward, level, vi, nb, wi + 1)

ForwardScan(G, S, level) ==
    ScanLevel(G, [S EXCEPT !.ff = <<>>], TRUE, level, 1, Adjacent(G, level[1], TRUE, 1), 1)

ReverseScan(G, S, level) ==
    ScanLevel(G, [S EXCEPT !.rf = <<>>], FALSE, level, 1, Adjacent(G, level[1], FALSE, 1), 1)

RECURSIVE BidirectionalPredSucc(_, _)
BidirectionalPredSucc(G, S) ==
    IF S.w # NoneV \/ S.ff = <<>> \/ S.rf = <<>> THEN S
    ELSE BidirectionalPredSucc(G,
            IF Len(S.ff) <= Len(S.rf) THEN ForwardScan(G, S, S.ff)
            ELSE ReverseScan(G, S, S.rf))

RECURSIVE WalkBack(_, _)
WalkBack(pred, w) == IF w = NoneV THEN <<>> ELSE Append(WalkBack(pred, pred[w]), w)

RECURSIVE WalkOn(_, _)
WalkOn(succ, w) == IF w = NoneV THEN <<>> ELSE <<w>> \o WalkOn(succ, succ[w])

\* the path from src to dst, or <<>> when networkx raises NetworkXNoPath
PathOf(S) ==
    IF S.w = NoneV THEN <<>>
    ELSE WalkBack(S.pred, S.w) \o WalkOn(S.succ, S.succ[S.w])

ShortestPath(G, src, dst) ==
    PathOf(BidirectionalPredSucc(G,
                [pred |-> (src :> NoneV), succ |-> (dst :> NoneV),
                 ff |-> <<src>>, rf |-> <<dst>>, w |-> NoneV]))

---------------------------------------------------------------------------
(* detect_lateral_movement *)

Cutoff == 4
MaxListedPaths == 20

\* a faulty filter that drops the paths of two hops
KeepPathDirect(path) == IF Len(path) = 2 THEN <<path>> ELSE <<>>

\* line 345
KeepPath(path) == IF 2 <= Len(path) /\ Len(path) <= Cutoff THEN <<path>> ELSE <<>>

\* the loop indices (i, j) of the k-th turn of the two nested loops over the
\* n anomalous nodes (lines 337-338)
LoopSource(n, k) == ((k - 1) \div n) + 1
LoopTarget(n, k) == ((k - 1) % n) + 1

\* lines 339-348, one turn: the path found, <<>> when the turn finds none
PairPath(G, anomalous, i, j) ==
    IF i = j THEN <<>> ELSE ShortestPath(G, anomalous[i], anomalous[j])

Kept(path) == KeepPath(path) # <<>>

\* a faulty scan that takes each pair of anomalous nodes once, in list order
PathsFoundForward(G, anomalous) ==
    SelectSeq([k \in 1..(Len(anomalous) * Len(anomalous)) |->
                  IF LoopSource(Len(anomalous), k) >= LoopTarget(Len(anomalous), k)
                  THEN <<>>
                  ELSE PairPath(G, anomalous, LoopSource(Len(anomalous), k),
                                LoopTarget(Len(anomalous), k))],
              Kept)

\* lines 337-348: the paths kept, for the pairs (i, j) in loop order
PathsFound(G, anomalous) ==
    SelectSeq([k \in 1..(Len(anomalous) * Len(anomalous)) |->
                  PairPath(G, anomalous, LoopSource(Len(anomalous), k),
                           LoopTarget(Len(anomalous), k))],
              Kept)

\* lines 351-357: the paths not seen before, in order
FirstSeen(paths) == {i \in DOMAIN paths : \A k \in 1..(i - 1) : paths[k] # paths[i]}

Unique(paths, keep) ==
    [n \in 1..Cardinality(keep) |->
        paths[CHOOSE i \in keep : Cardinality({k \in keep : k <= i}) = n]]

UniqueOf(paths) == Unique(paths, FirstSeen(paths))

UniqueAmong(G, anomalous) ==
    IF Len(anomalous) < 2 THEN <<>> ELSE UniqueOf(PathsFound(G, anomalous))

UniquePaths(G) == UniqueAmong(G, AnomalousNodes(G))

\* uniq[:20]
ListedPaths(uniq) == SubSeq(uniq, 1, Min(Len(uniq), MaxListedPaths))

\* max(set(starts), key=starts.count): the first start of maximal count in
\* the iteration order of a set of strings, which Python draws per process
\* (hash randomisation): any start of maximal count can be the result
StartCount(uniq, n) == Cardinality({i \in DOMAIN uniq : uniq[i][1] = n})
EntryChoices(uniq) ==
    {uniq[i][1] : i \in {k \in DOMAIN uniq :
        \A m \in DOMAIN uniq : StartCount(uniq, uniq[m][1]) <= StartCount(uniq, uniq[k][1])}}

NoLateral ==
    [lateral_movement_detected |-> FALSE, attack_paths |-> <<>>,
     entry_point |-> NoneV, compromised_devices |-> {}]

\* lines 361-369
AttackPaths(listed) ==
    [i \in DOMAIN listed |->
        [path |-> listed[i], length |-> Len(listed[i]),
         entry_point |-> listed[i][1], final_target |-> listed[i][Len(listed[i])]]]

\* the returned dict for the kept paths uniq and the entry point Python
\* picked; compromised_devices (a sorted list in the code) as the set it lists
LateralResults(uniq, entry) ==
    IF uniq = <<>> THEN NoLateral
    ELSE [lateral_movement_detected |-> TRUE,
          attack_paths |-> AttackPaths(ListedPaths(uniq)),
          entry_point |-> entry,
          compromised_devices |-> UNION {SeqToSet(uniq[i]) : i \in DOMAIN uniq}]

\* lines 371-375: the graph after the call
LateralRelabel(G, uniq) ==
    [G EXCEPT !.eattr = [e \in DOMAIN G.eattr |->
        IF \E i \in DOMAIN ListedPaths(uniq) :
              \E k \in 1..(Len(uniq[i]) - 1) : e = <<uniq[i][k], uniq[i][k + 1]>>
        THEN [G.eattr[e] EXCEPT !.type = "lateral"] ELSE G.eattr[e]]]

---------------------------------------------------------------------------
(* detect_coordinated_attack *)

NoCoordinated ==
    [coordinated_attack |-> FALSE, attack_wave |-> 0, affected_devices |-> <<>>,
     attack_start_time |-> NaT]

\* a faulty detector that asks for more than a fifth of the nodes
CoordinatedResultsStrict(G) ==
    LET N == NumNodes(G)
        anomalous == AnomalousNodes(G)
    IN  IF N = 0 THEN NoCoordinated
        ELSE IF Len(anomalous) >= 3 /\ 5 * Len(anomalous) > N
        THEN [coordinated_attack |-> TRUE, attack_wave |-> Len(anomalous),
              affected_devices |-> anomalous, attack_start_time |-> Now]
        ELSE NoCoordinated

\* ratio >= 0.20 is 5 * len(anomalous) >= N
CoordinatedResults(G) ==
    LET N == NumNodes(G)
        anomalous == AnomalousNodes(G)
    IN  IF N = 0 THEN NoCoordinated
        ELSE IF Len(anomalous) >= 3 /\ 5 * Len(anomalous) >= N
        THEN [coordinated_attack |-> TRUE, attack_wave |-> Len(anomalous),
              affected_devices |-> anomalous, attack_start_time |-> Now]
        ELSE NoCoordinated

---------------------------------------------------------------------------
(* identify_critical_devices: nx.betweenness_centrality, exact *)

\* hop distances from s: node -> distance, for the nodes s reaches
RECURSIVE DistLevels(_, _, _, _)
DistLevels(G, dist, frontier, d) ==
    IF frontier = {} THEN dist
    ELSE LET next == {e[2] : e \in {x \in EdgeSet(G) : x[1] \in frontier}} \ DOMAIN dist
         IN  DistLevels(G, [n \in next |-> d + 1] @@ dist, next, d + 1)

DistFrom(G, s) == DistLevels(G, (s :> 0), {s}, 0)

\* the sum of f over S, for f positive on S
SumOver(S, f) == BagCardinality([x \in S |-> f[x]])

\* number of shortest paths from s to t (t reached from s)
RECURSIVE Sigma(_, _, _, _)
Sigma(G, dist, s, t) ==
    IF t = s THEN 1
    ELSE LET before == {e[1] : e \in {x \in EdgeSet(G) :
                            x[2] = t /\ x[1] \in DOMAIN dist /\ x[1] # t
                            /\ dist[x[1]] = dist[t] - 1}}
         IN  SumOver(before, [u \in before |-> Sigma(G, dist, s, u)])

\* sig[s][t]: the number of shortest paths from s to each t it reaches
SigmaFrom(G, dist) ==
    [s \in DOMAIN dist |-> [t \in DOMAIN dist[s] |-> Sigma(G, dist[s], s, t)]]

RECURSIVE LcmOf(_)
LcmOf(S) ==
    IF S = {} THEN 1
    ELSE LET x == CHOOSE y \in S : TRUE
             rest == LcmOf(S \ {x})
         IN  (x * rest) \div Gcd(x, rest)

\* the normalised betweenness of every node: sum over the ordered pairs
\* (s, t) around v of the share of shortest s-t paths through v, divided
\* by (n - 1)(n - 2)
\* the ordered pairs (s, t) with a shortest path through v
PairsThrough(nodes, dist, v) ==
    {st \in {s \in nodes \ {v} : v \in DOMAIN dist[s]} \X (DOMAIN dist[v] \ {v}) :
        /\ st[1] # st[2]
        /\ dist[st[1]][v] + dist[v][st[2]] = dist[st[1]][st[2]]}

\* the share of the shortest s-t paths through v, over the denominator den
Share(sig, v, s, t, den) == sig[s][v] * sig[v][t] * (den \div sig[s][t])

ShareSum(sig, v, pairs, den) ==
    <<SumOver(pairs, [st \in pairs |-> Share(sig, v, st[1], st[2], den)]), den>>

ShareTotal(sig, v, pairs) ==
    ShareSum(sig, v, pairs, LcmOf({sig[st[1]][st[2]] : st \in pairs}))

Scaled(raw, k) == FracNorm(<<raw[1], raw[2] * k>>)

BetweennessOf(G, nodes, dist, sig, v) ==
    Scaled(ShareTotal(sig, v, PairsThrough(nodes, dist, v)),
           (NumNodes(G) - 1) * (NumNodes(G) - 2))

AllDist(G) == [s \in NodeSet(G) |-> DistFrom(G, s)]

BetweennessWith(G, dist, sig) ==
    IF Reached(sig)
    THEN [v \in NodeSet(G) |-> BetweennessOf(G, NodeSet(G), dist, sig, v)] ELSE <<>>

BetweennessFrom(G, dist) ==
    IF Reached(dist) THEN BetweennessWith(G, dist, SigmaFrom(G, dist)) ELSE <<>>

Betweenness(G) == BetweennessFrom(G, AllDist(G))

\* sorted(..., key=score, reverse=True): stable, so equal scores keep the
\* node order
RECURSIVE InsertByScore(_, _, _)
InsertByScore(sorted, b, v) ==
    IF sorted = <<>> THEN <<v>>
    ELSE LET last == sorted[Len(sorted)]
         IN  IF FracLe(b[v], b[last]) THEN Append(sorted, v)
             ELSE Append(InsertByScore(SubSeq(sorted, 1, Len(sorted) - 1), b, v), last)

RECURSIVE SortByScore(_, _, _, _)
SortByScore(sorted, b, nodes, i) ==
    IF Reached(sorted) /\ i <= Len(nodes)
    THEN SortByScore(InsertByScore(sorted, b, nodes[i]), b, nodes, i + 1) ELSE sorted

MaxCritical == 10
\* min_score = 0.08
MinScore == <<8, 100>>

\* the returned list; criticality_score in thousandths
\* lines 425-426: the nodes of score >= min_score, by descending score
KeptByScore(b, order) == SelectSeq(order, LAMBDA v : FracLe(MinScore, b[v]))

\* a faulty cut that returns every kept node
TopCriticalAll(kept) == kept

\* critical[:10]
TopCritical(kept) == SubSeq(kept, 1, Min(Len(kept), MaxCritical))

CriticalRecords(G, b, top) ==
    [i \in DOMAIN top |->
        [device_id |-> top[i],
         criticality_score |-> RoundTo(b[top[i]][1], b[top[i]][2], 1000),
         device_type |-> G.nattr[top[i]].device_type,
         is_anomalous |-> G.nattr[top[i]].is_anomalous]]

CriticalFrom(G, b) ==
    IF Reached(b)
    THEN CriticalRecords(G, b, TopCritical(KeptByScore(b, SortByScore(<<>>, b, G.nodes, 1))))
    ELSE <<>>

CriticalDevices(G) == IF NumNodes(G) < 3 THEN <<>> ELSE CriticalFrom(G, Betweenness(G))

---------------------------------------------------------------------------
(* detect_isolated_devices, get_network_health_score *)

\* a faulty scan that lists only the nodes without any edge
RECURSIVE IsolatedFromNoEdge(_, _)
IsolatedFromNoEdge(G, i) ==
    IF i > Len(G.nodes) THEN <<>>
    ELSE IF InDegree(G, G.nodes[i]) + OutDegree(G, G.nodes[i]) < 1
         THEN <<G.nodes[i]>> \o IsolatedFromNoEdge(G, i + 1)
         ELSE IsolatedFromNoEdge(G, i + 1)

RECURSIVE IsolatedFrom(_, _)
IsolatedFrom(G, i) ==
    IF i > Len(G.nodes) THEN <<>>
    ELSE IF InDegree(G, G.nodes[i]) + OutDegree(G, G.nodes[i]) <= 1
         THEN <<G.nodes[i]>> \o IsolatedFrom(G, i + 1)
         ELSE IsolatedFrom(G, i + 1)

IsolatedDevices(G) == IsolatedFrom(G, 1)

\* a faulty score whose empty graph scores 0
HealthScoreEmptyZero(G) ==
    LET N == NumNodes(G)
        A == Len(AnomalousNodes(G))
        I == Len(IsolatedDevices(G))
        num == 390 * (N - A) + 25 * Min(2 * NumEdges(G), 6 * N) + 60 * (N - I)
    IN  IF N = 0 THEN 0
        ELSE Max(0, Min(10000, RoundTo(num, 6 * N, 100)))

\* the score in hundredths:
\* (1 - A/N) * 65 + min(2E/N / 6, 1) * 25 + (1 - I/N) * 10, clamped, round(, 2)
HealthScore(G) ==
    LET N == NumNodes(G)
        A == Len(AnomalousNodes(G))
        I == Len(IsolatedDevices(G))
        num == 390 * (N - A) + 25 * Min(2 * NumEdges(G), 6 * N) + 60 * (N - I)
    IN  IF N = 0 THEN 10000
        ELSE Max(0, Min(10000, RoundTo(num, 6 * N, 100)))

---------------------------------------------------------------------------
(* export_for_frontend *)

\* a faulty grouping in which critical overrides anomalous too
NodeGroupCriticalFirst(G, critical, cands, n) ==
    IF \E i \in DOMAIN cands : cands[i].device_id = n THEN "c2"
    ELSE IF \E i \in DOMAIN critical : critical[i].device_id = n THEN "critical"
    ELSE IF G.nattr[n].is_anomalous THEN "anomalous"
    ELSE "normal"

\* lines 480-493
NodeGroup(G, critical, cands, n) ==
    IF \E i \in DOMAIN cands : cands[i].device_id = n THEN "c2"
    ELSE IF G.nattr[n].is_anomalous THEN "anomalous"
    ELSE IF \E i \in DOMAIN critical : critical[i].device_id = n THEN "critical"
    ELSE "normal"

\* G.edges: the out-edges of each node, node by node
RECURSIVE EdgesInOrder(_, _)
EdgesInOrder(G, i) ==
    IF i > Len(G.nodes) THEN <<>>
    ELSE LET u == G.nodes[i]
             nb == Successors(G, u)
         IN  [k \in DOMAIN nb |-> <<u, nb[k]>>] \o EdgesInOrder(G, i + 1)

\* a faulty record with the two degrees exchanged
NodeRecordSwapped(G, group, n) ==
    [id |-> n, group |-> group,
     device_type |-> G.nattr[n].device_type,
     is_anomalous |-> G.nattr[n].is_anomalous,
     traffic |-> G.nattr[n].total_traffic,
     cpu |-> G.nattr[n].avg_cpu,
     memory |-> G.nattr[n].avg_memory,
     in |-> OutDegree(G, n),
     out |-> InDegree(G, n)]

\* lines 495-509
NodeRecord(G, group, n) ==
    [id |-> n, group |-> group,
     device_type |-> G.nattr[n].device_type,
     is_anomalous |-> G.nattr[n].is_anomalous,
     traffic |-> G.nattr[n].total_traffic,
     cpu |-> G.nattr[n].avg_cpu,
     memory |-> G.nattr[n].avg_memory,
     in |-> InDegree(G, n),
     out |-> OutDegree(G, n)]

\* lines 511-523
LinkRecord(e, d) ==
    [source |-> e[1], target |-> e[2], type |-> d.type, weight |-> d.weight,
     count |-> d.count, total_packets |-> d.total_packets,
     total_out_kb |-> d.total_out_kb]

ExportNodes(G, critical, cands) ==
    IF Reached(critical) /\ Reached(cands)
    THEN [i \in DOMAIN G.nodes |->
            NodeRecord(G, NodeGroup(G, critical, cands, G.nodes[i]), G.nodes[i])]
    ELSE <<>>

ExportLinks(G, order) ==
    [i \in DOMAIN order |-> LinkRecord(order[i], G.eattr[order[i]])]

\* the returned {"nodes": ..., "links": ...}: G is the graph at the call, G2
\* the graph after the exporter's own detect_botnet_patterns call (line 491)
ExportOf(G, G2) ==
    [nodes |-> ExportNodes(G, CriticalDevices(G), BotnetResults(G).c2_candidates),
     links |-> ExportLinks(G2, EdgesInOrder(G2, 1))]

ExportForFrontend(G) == ExportOf(G, BotnetRelabel(G))

---------------------------------------------------------------------------
(* The analyzer as a state machine.  analyze_network runs build, the       *)
(* detectors, the health score and the exporter in its fixed order; pc     *)
(* names the statement it is about to run.  A request is [via, rows]: a    *)
(* DataFrame handed to analyze_network ("direct") or the telemetry list of *)
(* a POST /api/ml/network/analyze ("http").  The service's handler is an   *)
(* async function that never awaits, so the event loop runs one request to *)
(* its response before it starts the next: requests are served in turn by  *)
(* the one analyzer the module creates at import.                          *)

\* NetworkGraphAnalyzer(): the constructor's defaults
DefaultCfg ==
    [use_comm_target |-> TRUE, inference_enabled |-> TRUE,
     inference_time_window_sec |-> 30, inference_threshold |-> <<55, 100>>]

NoResults ==
    [botnet |-> NoBotnet, lateral |-> NoLateral, coordinated |-> NoCoordinated,
     critical |-> <<>>, health |-> 0, isolated |-> <<>>,
     export |-> [nodes |-> <<>>, links |-> <<>>]]

NoResponse == [via |-> "none", devices_analyzed |-> 0]

\* a faulty handler that passes on whatever fields the client sent
HttpFrameAsSent(telemetry) == telemetry

\* app.py lines 341-348: the frame of a request.  The request model has no
\* timestamp, label or anomaly field, so those columns are the handler's
HttpFrame(telemetry) ==
    [i \in DOMAIN telemetry |->
        [telemetry[i] EXCEPT !.timestamp = Now, !.label = "Unknown",
                             !.is_anomalous = "NA", !.is_anomaly = "NA",
                             !.attack_label = ""]]

\* line 533
Build(rows) ==
    LET st == BuildCommunicationGraph(cfg, edge_agg, rows)
    IN  /\ graph' = st.G
        /\ edge_agg' = st.agg
        /\ res' = NoResults
        /\ pc' = "botnet"
        /\ requests' = Tail(requests)
        /\ UNCHANGED <<cfg, response, calls>>

AnalyzeNetwork ==
    /\ pc = "idle"
    /\ requests # <<>>
    /\ Head(requests).via = "direct"
    /\ batch' = Head(requests)
    /\ Build(Head(requests).rows)

HttpAnalyzeNetwork ==
    /\ pc = "idle"
    /\ requests # <<>>
    /\ Head(requests).via = "http"
    /\ batch' = [via |-> "http", rows |-> HttpFrame(Head(requests).rows)]
    /\ Build(HttpFrame(Head(requests).rows))

\* line 536
DetectBotnet ==
    /\ pc = "botnet"
    /\ res' = [res EXCEPT !.botnet = BotnetResults(graph)]
    /\ graph' = BotnetRelabel(graph)
    /\ pc' = "lateral"
    /\ UNCHANGED <<requests, cfg, edge_agg, batch, response, calls>>

\* line 539
LateralStep(uniq) ==
    /\ \E entry \in (IF uniq = <<>> THEN {NoneV} ELSE EntryChoices(uniq)) :
            res' = [res EXCEPT !.lateral = LateralResults(uniq, entry)]
    /\ graph' = LateralRelabel(graph, uniq)

DetectLateral ==
    /\ pc = "lateral"
    /\ LateralStep(UniquePaths(graph))
    /\ pc' = "coordinated"
    /\ UNCHANGED <<requests, cfg, edge_agg, batch, response, calls>>

\* line 542
DetectCoordinated ==
    /\ pc = "coordinated"
    /\ res' = [res EXCEPT !.coordinated = CoordinatedResults(graph)]
    /\ pc' = "critical"
    /\ UNCHANGED <<requests, cfg, graph, edge_agg, batch, response, calls>>

\* line 545
IdentifyCritical ==
    /\ pc = "critical"
    /\ res' = [res EXCEPT !.critical = CriticalDevices(graph)]
    /\ pc' = "health"
    /\ UNCHANGED <<requests, cfg, graph, edge_agg, batch, response, calls>>

\* line 548
GetHealth ==
    /\ pc = "health"
    /\ res' = [res EXCEPT !.health = HealthScore(graph)]
    /\ pc' = "isolated"
    /\ UNCHANGED <<requests, cfg, graph, edge_agg, batch, response, calls>>

\* line 550
DetectIsolated ==
    /\ pc = "isolated"
    /\ res' = [res EXCEPT !.isolated = IsolatedDevices(graph)]
    /\ pc' = "export"
    /\ UNCHANGED <<requests, cfg, graph, edge_agg, batch, response, calls>>

\* line 552: the exporter runs detect_botnet_patterns again
Export ==
    /\ pc = "export"
    /\ res' = [res EXCEPT !.export = ExportForFrontend(graph)]
    /\ graph' = BotnetRelabel(graph)
    /\ pc' = "return"
    /\ UNCHANGED <<requests, cfg, edge_agg, batch, response, calls>>

\* lines 554-567
Analysis ==
    [network_summary |->
        [total_devices |-> NumNodes(graph), total_connections |-> NumEdges(graph),
         health_score |-> res.health, isolated_devices |-> res.isolated],
     botnet_analysis |-> res.botnet,
     lateral_movement |-> res.lateral,
     coordinated_attack |-> res.coordinated,
     critical_devices |-> res.critical,
     graph |-> res.export]

Return ==
    /\ pc = "return"
    /\ batch.via = "direct"
    /\ response' = [via |-> "direct", analysis |-> Analysis,
                    devices_analyzed |-> Len(batch.rows)]
    /\ calls' = calls + 1
    /\ pc' = "idle"
    /\ UNCHANGED <<requests, cfg, graph, edge_agg, batch, res>>

\* app.py lines 354-365: "links" goes out under the name "edges"
HttpRespond ==
    /\ pc = "return"
    /\ batch.via = "http"
    /\ response' = [via |-> "http", success |-> TRUE,
                    analysis |-> [Analysis EXCEPT !.graph =
                        [nodes |-> res.export.nodes, edges |-> res.export.links]],
                    devices_analyzed |-> Len(batch.rows)]
    /\ calls' = calls + 1
    /\ pc' = "idle"
    /\ UNCHANGED <<requests, cfg, graph, edge_agg, batch, res>>

\* the edge records of a response, under either name
ResponseEdges(r) ==
    IF r.via = "http" THEN r.analysis.graph.edges ELSE r.analysis.graph.links

Detectors ==
    \/ DetectBotnet
    \/ DetectLateral
    \/ DetectCoordinated
    \/ IdentifyCritical
    \/ GetHealth
    \/ DetectIsolated
    \/ Export

\* an analyzer used as a library object
Next ==
    \/ AnalyzeNetwork
    \/ Detectors
    \/ Return

\* the analyzer of the HTTP service
NextService ==
    \/ HttpAnalyzeNetwork
    \/ Detectors
    \/ HttpRespond

\* the state after construction, for a caller that will submit reqs
InitWith(c, reqs) ==
    /\ requests = reqs
    /\ cfg = c
    /\ graph = EmptyGraph
    /\ edge_agg = <<>>
    /\ pc = "idle"
    /\ batch = [via |-> "none", rows |-> <<>>]
    /\ res = NoResults
    /\ response = NoResponse
    /\ calls = 0

---------------------------------------------------------------------------
(* Inputs *)

\* one telemetry record
Ev(id, target, label, out_kb, in_kb, pkt, ts) ==
    [device_id |-> id, device_type |-> "sensor", comm_target |-> target,
     is_anomalous |-> "NA", is_anomaly |-> "NA", label |-> label,
     attack_label |-> "", timestamp |-> ts, cpu_usage |-> 50,
     memory_usage |-> 40, network_in_kb |-> in_kb, network_out_kb |-> out_kb,
     packet_rate |-> pkt]

\* all sequences over S of length at most n
SeqsUpTo(S, n) == UNION {[1..k -> S] : k \in 0..n}

MaxLen == 3

\* Three devices that tell each other apart by explicit targets: a and c
\* report anomalies, b does not.  Traffic stays under the inference floor.
TopoLabel(d) == IF d = "b" THEN "Normal" ELSE "Anomaly"
TopoEvents ==
    {Ev(d, t, TopoLabel(d), 20, 5, 10, 0) :
        d \in {"a", "b", "c"}, t \in {NoneV, "a", "b", "c"}}
TopoBatches == SeqsUpTo({e \in TopoEvents : e.comm_target # e.device_id}, MaxLen)

Init ==
    \E rows \in TopoBatches :
        InitWith(DefaultCfg, <<[via |-> "direct", rows |-> rows]>>)

Spec == Init /\ [][Next]_vars

---------------------------------------------------------------------------
(* A fleet: a hub that sends to k targets, of which the first m answer,    *)
(* and x bystanders that talk to nobody.  The devices are h, t1..tk,       *)
(* x1..xx; the anomalous ones are a consecutive run of that list, from the *)
(* hub or from the first device after it.                                  *)

MaxTargets == 5
MaxBack == 1
MaxExtra == 12
MaxAnom == 3

Name(prefix, i) == prefix \o ToString(i)

FleetLabel(index, a, skip) ==
    IF (IF skip THEN 2 ELSE 1) <= index /\ index <= (IF skip THEN a + 1 ELSE a)
    THEN "Anomaly" ELSE "Normal"

FleetRows(k, m, x, a, skip) ==
    (IF k = 0 THEN <<Ev("h", NoneV, FleetLabel(1, a, skip), 20, 5, 10, 0)>>
     ELSE [i \in 1..k |-> Ev("h", Name("t", i), FleetLabel(1, a, skip), 20, 5, 10, 0)])
    \o [i \in 1..k |-> Ev(Name("t", i), IF i <= m THEN "h" ELSE NoneV,
                          FleetLabel(1 + i, a, skip), 20, 5, 10, 0)]
    \o [i \in 1..x |-> Ev(Name("x", i), NoneV, FleetLabel(1 + k + i, a, skip), 20, 5, 10, 0)]

FleetShapes ==
    {p \in (0..MaxTargets) \X (0..MaxBack) \X (0..MaxExtra) \X (0..MaxAnom) \X BOOLEAN :
        p[2] <= p[1]}

FleetBatches == {FleetRows(p[1], p[2], p[3], p[4], p[5]) : p \in FleetShapes}

InitFleet ==
    \E rows \in FleetBatches :
        InitWith(DefaultCfg, <<[via |-> "direct", rows |-> rows]>>)

SpecFleet == InitFleet /\ [][Next]_vars

---------------------------------------------------------------------------
(* Device ids as they arrive: with or without padding, blank or missing    *)
(* (a NaN cell), from devices whose traffic is or is not heavy enough for  *)
(* the inference pass, analysed with inference on or off.                  *)

MaxIdLen == 2

IdEvents ==
    {Ev(d, t, "Normal", io[1], io[2], io[3], 0) :
        d \in {"a", " a", "b", "  ", NaNV}, t \in {NoneV, "<absent>", "b"},
        io \in {<<20, 5, 10>>, <<300, 300, 1000>>}}

InitIds ==
    \E rows \in SeqsUpTo(IdEvents, MaxIdLen), inference \in BOOLEAN :
        InitWith([DefaultCfg EXCEPT !.inference_enabled = inference],
                 <<[via |-> "direct", rows |-> rows]>>)

SpecIds == InitIds /\ [][Next]_vars

---------------------------------------------------------------------------
(* Devices d1 .. dn in a line, each reporting the next one as its target:  *)
(* an open chain or a closed ring, one-way or two-way, where every device, *)
(* the two ends only or the first device only report anomalies.            *)

MaxRing == 13

RingLabel(flagged, n, i) ==
    IF flagged = "all" \/ (flagged = "ends" /\ i \in {1, n}) \/ (flagged = "first" /\ i = 1)
    THEN "Anomaly" ELSE "Normal"

RingNext(n, closed, i) ==
    IF i < n THEN Name("d", i + 1) ELSE IF closed THEN "d1" ELSE NoneV

RingPrev(n, closed, i) ==
    IF i > 1 THEN Name("d", i - 1) ELSE IF closed THEN Name("d", n) ELSE NoneV

RingRows(n, closed, both, flagged) ==
    [i \in 1..n |-> Ev(Name("d", i), RingNext(n, closed, i),
                       RingLabel(flagged, n, i), 20, 5, 10, 0)]
    \o (IF both
        THEN [i \in 1..n |-> Ev(Name("d", i), RingPrev(n, closed, i),
                                RingLabel(flagged, n, i), 20, 5, 10, 0)]
        ELSE <<>>)

RingBatches ==
    {RingRows(n, closed, both, flagged) :
        n \in 2..MaxRing, closed \in BOOLEAN, both \in BOOLEAN,
        flagged \in {"all", "ends", "first"}}

InitRing ==
    \E rows \in RingBatches :
        InitWith(DefaultCfg, <<[via |-> "direct", rows |-> rows]>>)

SpecRing == InitRing /\ [][Next]_vars

---------------------------------------------------------------------------
(* One analyzer that serves several batches in turn: an object a caller    *)
(* keeps (SpecReuse), and the analyzer of the HTTP service (SpecService).  *)

MaxCalls == 2
MaxServiceLen == 2

ServiceEvents ==
    {Ev("a", "b", "Anomaly", 300, 300, 1000, 0), Ev("b", NoneV, "Anomaly", 300, 300, 1000, 0)}

RequestsVia(via) ==
    SeqsUpTo({[via |-> via, rows |-> rows] :
                rows \in SeqsUpTo(ServiceEvents, MaxServiceLen)}, MaxCalls)

InitReuse == \E reqs \in RequestsVia("direct") : InitWith(DefaultCfg, reqs)

SpecReuse == InitReuse /\ [][Next]_vars

InitService == \E reqs \in RequestsVia("http") : InitWith(DefaultCfg, reqs)

SpecService == InitService /\ [][NextService]_vars

---------------------------------------------------------------------------
(* Properties *)

\* analyze_network has returned: graph, batch and response are those of the
\* last call
Returned == pc = "idle" /\ calls > 0

\* the nodes whose is_anomalous attribute is set
FlaggedNodes(G) == {n \in NodeSet(G) : G.nattr[n].is_anomalous}

\* the graph a fresh analyzer builds from rows
FreshBuild(rows) == BuildCommunicationGraph(cfg, <<>>, rows).G

\* the device ids a batch references, as an event's device id or as an
\* explicit communication target, without their padding
ReferencedIds(rows) ==
    ({Strip(StrOf(rows[i].device_id)) : i \in DOMAIN rows}
     \cup {Strip(StrOf(rows[i].comm_target)) :
            i \in {j \in DOMAIN rows : rows[j].comm_target \notin {NoneV, "<absent>"}}})
    \ {""}

\* C1: after build_communication_graph the nodes of the graph are exactly
\* the distinct device ids the batch references, each once, whatever the
\* order of the events and whether inference is enabled or not.
C1_NodesAreReferencedIds ==
    pc = "botnet" =>
        /\ NodeSet(graph) = ReferencedIds(batch.rows)
        /\ Len(graph.nodes) = Cardinality(ReferencedIds(batch.rows))

\* an exported edge record r carries the totals and the baseline type that
\* the attributes d of a fresh build give its edge
SameAsFresh(r, d, baseline) ==
    /\ r.count = d.count
    /\ r.total_packets = d.total_packets
    /\ r.total_out_kb = d.total_out_kb
    /\ baseline = d.type

LinksAsFresh(links, fresh, agg) ==
    \A i \in DOMAIN links :
        /\ <<links[i].source, links[i].target>> \in DOMAIN fresh.eattr
        /\ SameAsFresh(links[i], fresh.eattr[<<links[i].source, links[i].target>>],
                       agg[<<links[i].source, links[i].target>>].edge_type)

\* C2: what analyze_network returns for a batch does not depend on earlier
\* calls on the same analyzer: every exported edge has the count, the packet
\* total, the outbound-KB total and the baseline type that a fresh analyzer
\* gives it for this batch.
C2_ResultIgnoresEarlierCalls ==
    Returned => LinksAsFresh(ResponseEdges(response), FreshBuild(batch.rows), edge_agg)

\* C3: in the HTTP service every request is served from analyzer state of
\* its own: when a request is about to be handled, no edge aggregate that an
\* earlier request wrote is there for it to read.
C3_RequestStartsFresh ==
    (pc = "idle" /\ requests # <<>> /\ Head(requests).via = "http") => edge_agg = <<>>

\* the edge e is a hop of one of the reported attack paths
OnAttackPath(e, paths) ==
    \E i \in DOMAIN paths : \E k \in 1..(Len(paths[i].path) - 1) :
        paths[i].path[k] = e[1] /\ paths[i].path[k + 1] = e[2]

\* the device ids of the C2 candidates of a botnet result
C2Ids(r) == {r.c2_candidates[i].device_id : i \in DOMAIN r.c2_candidates}

\* C4: in the result of analyze_network an edge that leaves a C2 candidate
\* and lies on a kept lateral-movement path is exported with type "lateral".
C4_LateralWinsOverC2 ==
    Returned =>
        \A i \in DOMAIN ResponseEdges(response) :
            (/\ ResponseEdges(response)[i].source \in C2Ids(response.analysis.botnet_analysis)
             /\ OnAttackPath(<<ResponseEdges(response)[i].source,
                              ResponseEdges(response)[i].target>>,
                             response.analysis.lateral_movement.attack_paths))
            => ResponseEdges(response)[i].type = "lateral"

\* rows is one explicit event fed twice
IsRepeat(rows) ==
    /\ Len(rows) = 2
    /\ rows[1] = rows[2]
    /\ rows[1].comm_target \notin {NoneV, "<absent>"}
    /\ Strip(StrOf(rows[1].comm_target)) # Strip(StrOf(rows[1].device_id))

RepeatKey(rows) == <<Strip(StrOf(rows[1].device_id)), Strip(StrOf(rows[1].comm_target))>>

\* G holds key once, with count 2 and twice the sums of the single feed
Doubled(G, once, key) ==
    /\ Cardinality({i \in DOMAIN G.edges : G.edges[i] = key}) = 1
    /\ once.eattr[key].count = 1
    /\ G.eattr[key].count = 2
    /\ G.eattr[key].total_packets = 2 * once.eattr[key].total_packets
    /\ G.eattr[key].total_out_kb = 2 * once.eattr[key].total_out_kb

\* C5: the same explicit event fed twice in a batch to a fresh analyzer
\* leaves exactly one edge for its ordered pair, with count 2 and with packet
\* and outbound-KB sums twice those of feeding it once.
C5_RepeatDoubles ==
    (pc = "botnet" /\ calls = 0 /\ IsRepeat(batch.rows)) =>
        Doubled(graph, FreshBuild(<<batch.rows[1]>>), RepeatKey(batch.rows))

C5_Witness ==
    /\ pc = "botnet" /\ calls = 0 /\ IsRepeat(batch.rows)
    /\ graph.eattr[RepeatKey(batch.rows)].count = 2
    /\ graph.eattr[RepeatKey(batch.rows)].total_packets = 20
    /\ graph.eattr[RepeatKey(batch.rows)].total_out_kb = 40

\* node n has the fan-out of a C2 server for the given threshold
MeetsC2(G, n, threshold) ==
    OutDegree(G, n) >= threshold /\ OutDegree(G, n) > 2 * (InDegree(G, n) + 1)

\* the candidate list of r names exactly the nodes of G that meet the test,
\* each once, and nobody when G has fewer than 4 nodes
CandidatesAre(r, G, threshold) ==
    /\ C2Ids(r) = IF NumNodes(G) >= 4
                  THEN {n \in NodeSet(G) : MeetsC2(G, n, threshold)} ELSE {}
    /\ Len(r.c2_candidates) = Cardinality(C2Ids(r))

\* C6 (as the code has it): the C2 candidates are exactly the nodes with
\* out-degree >= max(3, int(0.25 * totalNodes)), the quarter truncated, and
\* out-degree / (in-degree + 1) > 2.0 when the graph has at least 4 nodes,
\* and nobody when it has fewer.
C6_CandidatesTruncated ==
    pc = "lateral" =>
        CandidatesAre(res.botnet, graph, Max(3, NumNodes(graph) \div 4))

\* C6 (as stated): the same with the quarter rounded to nearest,
\* max(3, round(0.25 * totalNodes)).
C6_CandidatesRounded ==
    pc = "lateral" =>
        CandidatesAre(res.botnet, graph, Max(3, RoundTo(NumNodes(graph), 4, 1)))

C6_Witness ==
    /\ pc = "lateral"
    /\ NumNodes(graph) = 14
    /\ \E i \in DOMAIN res.botnet.c2_candidates :
            res.botnet.c2_candidates[i].out_connections = 3

\* the only edges of G are explicit edges from hub to other devices
Star(G, agg, hub) ==
    /\ EdgeSet(G) # {}
    /\ \A e \in EdgeSet(G) : e[1] = hub /\ e[2] # hub /\ agg[e].edge_type = "explicit"

\* the botnet result r lists hub with k connections and score k / N
HubReported(r, hub, k, N) ==
    /\ r.botnet_detected
    /\ \E i \in DOMAIN r.c2_candidates :
        /\ r.c2_candidates[i].device_id = hub
        /\ r.c2_candidates[i].out_connections = k
        /\ r.c2_candidates[i].c2_score = RoundTo(k, N, 1000)

\* C7 (as the code has it): a star of explicit edges from one hub to k
\* devices that never send back is reported as a botnet, with the hub among
\* the candidates, out_connections = k and c2_score = k / total_devices to 3
\* decimals, when k >= max(3, int(0.25 * total_devices)).
C7_StarOverThreshold ==
    Returned =>
        \A hub \in NodeSet(graph) :
            (Star(graph, edge_agg, hub)
             /\ NumEdges(graph) >= Max(3, NumNodes(graph) \div 4))
            => HubReported(response.analysis.botnet_analysis, hub, NumEdges(graph),
                           response.analysis.network_summary.total_devices)

\* C7 (as stated): the same for every k.
C7_StarAnyFanOut ==
    Returned =>
        \A hub \in NodeSet(graph) :
            Star(graph, edge_agg, hub)
            => HubReported(response.analysis.botnet_analysis, hub, NumEdges(graph),
                           response.analysis.network_summary.total_devices)

\* the stated test: 6 devices, k = 5, score 0.833
C7_Witness ==
    /\ Returned
    /\ Star(graph, edge_agg, "h")
    /\ NumNodes(graph) = 6 /\ NumEdges(graph) = 5
    /\ response.analysis.botnet_analysis.botnet_detected
    /\ \E i \in DOMAIN response.analysis.botnet_analysis.c2_candidates :
        /\ response.analysis.botnet_analysis.c2_candidates[i].device_id = "h"
        /\ response.analysis.botnet_analysis.c2_candidates[i].out_connections = 5
        /\ response.analysis.botnet_analysis.c2_candidates[i].c2_score = 833

\* the only edges of G are the explicit edges A -> B and B -> C, with A and
\* C anomalous and B normal
Chain(G, agg, A, B, C) ==
    /\ A # B /\ B # C /\ A # C
    /\ EdgeSet(G) = {<<A, B>>, <<B, C>>}
    /\ agg[<<A, B>>].edge_type = "explicit" /\ agg[<<B, C>>].edge_type = "explicit"
    /\ G.nattr[A].is_anomalous /\ G.nattr[C].is_anomalous /\ ~G.nattr[B].is_anomalous

\* C8: for a chain A -> B -> C of explicit edges with A and C anomalous and
\* B normal, analyze_network reports lateral movement with the one attack
\* path [A, B, C], entry point A and compromised devices {A, B, C}.
C8_ChainReported ==
    Returned =>
        \A A \in NodeSet(graph), B \in NodeSet(graph), C \in NodeSet(graph) :
            Chain(graph, edge_agg, A, B, C) =>
                response.analysis.lateral_movement =
                    [lateral_movement_detected |-> TRUE,
                     attack_paths |-> <<[path |-> <<A, B, C>>, length |-> 3,
                                         entry_point |-> A, final_target |-> C]>>,
                     entry_point |-> A,
                     compromised_devices |-> {A, B, C}]

C8_Witness ==
    /\ Returned
    /\ Chain(graph, edge_agg, "a", "b", "c")
    /\ response.analysis.lateral_movement.lateral_movement_detected
    /\ response.analysis.lateral_movement.entry_point = "a"

\* C9: with fewer than 2 nodes flagged anomalous, whatever the edges,
\* detect_lateral_movement reports nothing: not detected, no attack path, no
\* compromised device, no entry point.
C9_NoLateralBelowTwo ==
    (pc = "coordinated" /\ Cardinality(FlaggedNodes(graph)) < 2) =>
        /\ ~res.lateral.lateral_movement_detected
        /\ res.lateral.attack_paths = <<>>
        /\ res.lateral.compromised_devices = {}
        /\ res.lateral.entry_point = NoneV

\* one flagged node that sends, in a graph of two edges or more
C9_Witness ==
    /\ pc = "coordinated"
    /\ Cardinality(FlaggedNodes(graph)) = 1
    /\ NumEdges(graph) >= 2
    /\ \E e \in EdgeSet(graph) : e[1] \in FlaggedNodes(graph)
    /\ ~res.lateral.lateral_movement_detected

\* N > 0, A >= 3 and A / N >= 0.20
CoordinatedWhen(N, A) == N > 0 /\ A >= 3 /\ 5 * A >= N

\* C10: coordinated_attack is true exactly when N > 0, A >= 3 and
\* A / N >= 0.20 for the N nodes and the A anomalous nodes of the graph; then
\* attack_wave = A and affected_devices is the anomalous set; with no
\* anomalous device it is false.
C10_CoordinatedExactly ==
    pc = "critical" =>
        /\ res.coordinated.coordinated_attack
            <=> CoordinatedWhen(NumNodes(graph), Cardinality(FlaggedNodes(graph)))
        /\ res.coordinated.coordinated_attack =>
            /\ res.coordinated.attack_wave = Cardinality(FlaggedNodes(graph))
            /\ SeqToSet(res.coordinated.affected_devices) = FlaggedNodes(graph)
            /\ Len(res.coordinated.affected_devices) = Cardinality(FlaggedNodes(graph))
        /\ FlaggedNodes(graph) = {} => ~res.coordinated.coordinated_attack

\* detection at the edge of the ratio: 3 anomalous devices of 15
C10_Witness ==
    /\ pc = "critical"
    /\ NumNodes(graph) = 15
    /\ res.coordinated.coordinated_attack
    /\ res.coordinated.attack_wave = 3

\* health scores are in hundredths: 0.0 is 0 and 100.0 is 10000
InRange(h) == 0 <= h /\ h <= 10000

\* C11: health_score is within [0, 100] for every batch, and an empty batch
\* (a graph of zero nodes) gives exactly 100.0.
C11_HealthInRange ==
    /\ pc = "isolated" =>
        (InRange(res.health) /\ (NumNodes(graph) = 0 => res.health = 10000))
    /\ Returned =>
        /\ InRange(response.analysis.network_summary.health_score)
        /\ batch.rows = <<>> =>
            response.analysis.network_summary.health_score = 10000

C11_Witness ==
    /\ Returned
    /\ batch.rows = <<>>
    /\ response.analysis.network_summary.total_devices = 0
    /\ response.analysis.network_summary.health_score = 10000

\* in-degree plus out-degree of n
Degree(G, n) ==
    Cardinality({e \in EdgeSet(G) : e[1] = n}) + Cardinality({e \in EdgeSet(G) : e[2] = n})

\* C12: network_summary.isolated_devices lists exactly the nodes whose
\* in-degree plus out-degree is at most 1, each once; a device seen in one
\* event and without any edge is among them.
C12_IsolatedExactly ==
    Returned =>
        /\ SeqToSet(response.analysis.network_summary.isolated_devices)
            = {n \in NodeSet(graph) : Degree(graph, n) <= 1}
        /\ Len(response.analysis.network_summary.isolated_devices)
            = Cardinality({n \in NodeSet(graph) : Degree(graph, n) <= 1})

\* a listed device without any edge, next to a device of two edges that is
\* not listed
C12_Witness ==
    /\ Returned
    /\ \E n \in SeqToSet(response.analysis.network_summary.isolated_devices) :
            Degree(graph, n) = 0
    /\ \E n \in NodeSet(graph) :
            /\ Degree(graph, n) = 2
            /\ n \notin SeqToSet(response.analysis.network_summary.isolated_devices)

\* the device ids of a list of records
IdsOf(records) == {records[i].device_id : i \in DOMAIN records}

\* the group the stated priority gives a node
GroupByPriority(candidate, critical, anomalous) ==
    IF candidate THEN "c2"
    ELSE IF critical /\ ~anomalous THEN "critical"
    ELSE IF anomalous THEN "anomalous"
    ELSE "normal"

\* C13: the exporter gives every node one record, whose group is c2 for a
\* botnet candidate, else critical for a node of the critical list that is
\* not anomalous, else anomalous for a flagged node, else normal.
C13_GroupByPriority ==
    Returned =>
        /\ [i \in DOMAIN response.analysis.graph.nodes |->
                response.analysis.graph.nodes[i].id] = graph.nodes
        /\ \A i \in DOMAIN response.analysis.graph.nodes :
            response.analysis.graph.nodes[i].group =
                GroupByPriority(
                    response.analysis.graph.nodes[i].id
                        \in IdsOf(response.analysis.botnet_analysis.c2_candidates),
                    response.analysis.graph.nodes[i].id
                        \in IdsOf(response.analysis.critical_devices),
                    response.analysis.graph.nodes[i].is_anomalous)

\* an anomalous node of the critical list that keeps the group anomalous
C13_Witness ==
    /\ Returned
    /\ \E i \in DOMAIN response.analysis.graph.nodes :
        /\ response.analysis.graph.nodes[i].id
                \in IdsOf(response.analysis.critical_devices)
        /\ response.analysis.graph.nodes[i].is_anomalous
        /\ response.analysis.graph.nodes[i].group = "anomalous"

\* the entry point this run reported is the one every run on the kept paths
\* uniq reports
OnlyEntry(uniq, entry) == \A e \in EntryChoices(uniq) : e = entry

\* C14: graph construction and all detections are deterministic: a second
\* analyze_network run on the same batch with the same thresholds, on a fresh
\* analyzer, returns the same graph, detector results (attack-path order and
\* entry_point included) and health score as this run; here for the
\* lateral-movement result, the one part a re-run can change
C14_SameBatchSameResult ==
    (pc = "coordinated" /\ res.lateral.lateral_movement_detected) =>
        OnlyEntry(UniquePaths(graph), res.lateral.entry_point)

\* no record of the batch has a device id that is left after stripping
NoParseableId(rows) == \A i \in DOMAIN rows : Strip(StrOf(rows[i].device_id)) = ""

\* C15: analyze_network surfaces an error to the caller when the batch is
\* non-empty and no record in it has a parseable device id: no call on such a
\* batch comes back with an analysis
C15_NoIdsIsError ==
    (Returned /\ batch.rows # <<>> /\ NoParseableId(batch.rows)) =>
        "analysis" \notin DOMAIN response

\* the edges a path walks
PathEdges(path) == {<<path[k], path[k + 1]>> : k \in 1..(Len(path) - 1)}

\* every edge of the kept paths uniq is typed lateral in G
AllLateral(G, uniq) ==
    \A i \in DOMAIN uniq : \A e \in PathEdges(uniq[i]) : G.eattr[e].type = "lateral"

\* every kept path is one of the listed attack paths
AllListed(listed, uniq) ==
    \A i \in DOMAIN uniq : \E k \in DOMAIN listed : listed[k].path = uniq[i]

\* C16: after detect_lateral_movement reports detection, every edge traversed
\* by any kept path (every deduplicated shortest path of 2 to 4 nodes between
\* two distinct anomalous nodes) has type lateral, however many paths were
\* kept, and every kept path is listed in attack_paths
C16_KeptPathsLateralAndListed ==
    (pc = "coordinated" /\ res.lateral.lateral_movement_detected) =>
        /\ AllLateral(graph, UniquePaths(graph))
        /\ AllListed(res.lateral.attack_paths, UniquePaths(graph))

\* the nodes within h hops of the nodes S
RECURSIVE Within(_, _, _)
Within(G, S, h) ==
    IF h = 0 THEN S
    ELSE Within(G, S \cup {e[2] : e \in {d \in EdgeSet(G) : d[1] \in S}}, h - 1)

\* some anomalous node reaches another one on a path of 2 to 4 nodes
LateralPair(G, flagged) ==
    \E s \in flagged, t \in flagged : s # t /\ t \in Within(G, {s}, Cutoff - 1)

NodesOf(paths) == UNION {SeqToSet(paths[i]) : i \in DOMAIN paths}

\* C17: lateral_movement_detected is true exactly when there is an ordered
\* pair of distinct anomalous nodes (src, dst) whose shortest directed path
\* from src to dst exists and has between 2 and 4 nodes inclusive;
\* compromised_devices is then the union of the nodes of all kept paths
C17_DetectedExactly ==
    pc = "coordinated" =>
        /\ res.lateral.lateral_movement_detected
            = LateralPair(graph, SeqToSet(AnomalousNodes(graph)))
        /\ res.lateral.lateral_movement_detected =>
            res.lateral.compromised_devices = NodesOf(UniquePaths(graph))

C17_Witness ==
    /\ pc = "coordinated"
    /\ res.lateral.lateral_movement_detected
    /\ Len(res.lateral.attack_paths) = 1
    /\ res.lateral.attack_paths[1].length = Cutoff
    /\ Cardinality(res.lateral.compromised_devices) = Cutoff

\* the start of the first kept path whose start starts the most kept paths
FirstMostFrequentStart(uniq) ==
    LET most == {k \in DOMAIN uniq :
                    \A m \in DOMAIN uniq :
                        StartCount(uniq, uniq[m][1]) <= StartCount(uniq, uniq[k][1])}
    IN  uniq[CHOOSE k \in most : \A m \in most : k <= m][1]

EntryIsFirstMost(uniq, entry) == entry = FirstMostFrequentStart(uniq)

\* C18: the lateral-movement entry_point is the path-start node that starts
\* the most kept paths, and when several start nodes tie for the maximum it is
\* the one encountered first in the iteration order of the kept paths
C18_EntryFirstMostFrequent ==
    (pc = "coordinated" /\ res.lateral.lateral_movement_detected) =>
        EntryIsFirstMost(UniquePaths(graph), res.lateral.entry_point)

\* the edges of G that leave a C2 candidate of the botnet result r
CandidateEdges(G, r) == {e \in EdgeSet(G) : e[1] \in C2Ids(r)}

\* C19: in every result of detect_botnet_patterns, botnet_detected is true
\* exactly when c2_candidates is non-empty; confidence is 0.85 when detected
\* and 0.0 otherwise; recruited_devices is the union of the successors of all
\* candidates; and, directly after the call, every edge from a candidate to a
\* successor has type c2
C19_BotnetResultCoherent ==
    pc = "lateral" =>
        /\ res.botnet.botnet_detected = (res.botnet.c2_candidates # <<>>)
        /\ res.botnet.confidence = IF res.botnet.botnet_detected THEN 85 ELSE 0
        /\ res.botnet.recruited_devices = {e[2] : e \in CandidateEdges(graph, res.botnet)}
        /\ \A e \in CandidateEdges(graph, res.botnet) : graph.eattr[e].type = "c2"

C19_Witness ==
    /\ pc = "lateral"
    /\ res.botnet.botnet_detected
    /\ res.botnet.confidence = 85
    /\ Cardinality(res.botnet.recruited_devices) >= 3
    /\ \E e \in EdgeSet(graph) : graph.eattr[e].type = "c2"
    /\ \E e \in EdgeSet(graph) : graph.eattr[e].type = "explicit"

\* record i of rows names a target: the key is there and holds a string that
\* is not blank
HasTarget(rows, i) ==
    /\ rows[i].comm_target \notin {NoneV, NaNV, "<absent>"}
    /\ Strip(rows[i].comm_target) # ""

\* the pairs (device id, target) of the events that name a target other than
\* their own device
ExplicitPairs(rows) ==
    {p \in {<<Strip(StrOf(rows[i].device_id)), Strip(rows[i].comm_target)>> :
                i \in {j \in DOMAIN rows : HasTarget(rows, j)}} :
        p[1] # "" /\ p[1] # p[2]}

\* the device ids that have an event of their own
SourceIds(rows) == {Strip(StrOf(rows[i].device_id)) : i \in DOMAIN rows}

\* node n of G is a placeholder for a device that sent nothing
IsPlaceholder(G, n) ==
    /\ n \in NodeSet(G)
    /\ G.nattr[n].device_type = "unknown"
    /\ ~G.nattr[n].is_anomalous
    /\ G.nattr[n].total_traffic = 0

\* C20: with inference disabled, the built graph contains the edge (s, d)
\* exactly when some event of the batch has device id s and a non-empty
\* communication target d different from s; each such edge has weight 1.0 and
\* type explicit, and a destination never seen as a source exists as a node
\* with device type "unknown", not anomalous and zero traffic
C20_ExplicitEdgesExactly ==
    (pc = "botnet" /\ ~cfg.inference_enabled) =>
        /\ EdgeSet(graph) = ExplicitPairs(batch.rows)
        /\ \A e \in EdgeSet(graph) :
            /\ FracEq(graph.eattr[e].weight, <<1, 1>>)
            /\ graph.eattr[e].type = "explicit"
        /\ \A p \in ExplicitPairs(batch.rows) :
            p[2] \notin SourceIds(batch.rows) => IsPlaceholder(graph, p[2])

\* the targets the events of the batch name
NamedTargets(rows) == {Strip(rows[i].comm_target) : i \in {j \in DOMAIN rows : HasTarget(rows, j)}}

\* C21: an event whose optional communication target is missing (field
\* absent for that record, null or empty) contributes no explicit edge and
\* creates no node other than the node of its own device, also when other
\* events of the same batch do carry a target: every explicit edge is named
\* by an event that has a target, and without inference every node is the
\* device of an event or a named target
C21_MissingTargetAddsNothing ==
    pc = "botnet" =>
        /\ \A e \in EdgeSet(graph) :
            graph.eattr[e].type = "explicit" => e \in ExplicitPairs(batch.rows)
        /\ ~cfg.inference_enabled =>
            NodeSet(graph) \subseteq (SourceIds(batch.rows) \cup NamedTargets(batch.rows))

\* C22: no built graph ever contains a self-loop: after any build, with
\* explicit targets and inference in any combination, there is no edge whose
\* source equals its destination, and events whose target equals their own
\* device id add nothing
C22_NoSelfLoop ==
    pc = "botnet" => \A e \in EdgeSet(graph) : e[1] # e[2]

---------------------------------------------------------------------------
(* Devices that name no target and are told apart by inference alone: two  *)
(* devices report at 0 s, 20 s or 40 s as a heavy sender that receives     *)
(* nothing, a heavy or a light device with no packets, in any order.       *)

MaxInferLen == 3

InferEvents ==
    {Ev(d, "<absent>", "Normal", io[1], io[2], io[3], ts) :
        d \in {"a", "b"}, ts \in {0, 20, 40},
        io \in {<<750, 20, 1000>>, <<750, 750, 0>>, <<300, 300, 0>>}}

InitInfer ==
    \E rows \in SeqsUpTo(InferEvents, MaxInferLen) :
        InitWith(DefaultCfg, <<[via |-> "direct", rows |-> rows]>>)

SpecInfer == InitInfer /\ [][Next]_vars

\* the device id of event i, or "" when the event has none
IdOf(rows, i) ==
    IF rows[i].device_id \in {NoneV, NaNV} THEN "" ELSE Strip(rows[i].device_id)

\* the devices that have an event in the batch
DeviceIds(rows) == {IdOf(rows, i) : i \in DOMAIN rows} \ {""}

\* the scores, in the direction u -> v, of the pairs of an event of u and
\* an event of v that are at most the window apart
PairScores(c, rows, u, v) ==
    {Likelihood(rows[p[1]], rows[p[2]]) :
        p \in {q \in (DOMAIN rows) \X (DOMAIN rows) :
                 /\ IdOf(rows, q[1]) = u
                 /\ IdOf(rows, q[2]) = v
                 /\ NormTs(rows[q[1]].timestamp) - NormTs(rows[q[2]].timestamp)
                        \in -c.inference_time_window_sec .. c.inference_time_window_sec}}

\* the scores of PairScores that reach the threshold
Qualifying(c, rows, u, v) ==
    {s \in PairScores(c, rows, u, v) : FracLe(c.inference_threshold, s)}

\* C23: with inference enabled and no explicit targets, the built graph has
\* an inferred edge u -> v exactly when an event of u and an event of v,
\* u # v, lie within the time window and score at least the threshold in
\* the direction u -> v, and the edge's weight is the largest such score
C23_InferredEdgesExactly ==
    (pc = "botnet" /\ cfg.inference_enabled /\ ~HasCommTargetColumn(batch.rows)) =>
        /\ \A u \in DeviceIds(batch.rows), v \in DeviceIds(batch.rows) :
              (u # v /\ Qualifying(cfg, batch.rows, u, v) # {}) => HasEdge(graph, u, v)
        /\ \A e \in EdgeSet(graph) :
              /\ e[1] \in DeviceIds(batch.rows)
              /\ e[2] \in DeviceIds(batch.rows)
              /\ e[1] # e[2]
              /\ graph.eattr[e].type = "inferred"
              /\ \E s \in Qualifying(cfg, batch.rows, e[1], e[2]) :
                    /\ FracEq(graph.eattr[e].weight, s)
                    /\ \A t \in Qualifying(cfg, batch.rows, e[1], e[2]) : FracLe(t, s)

\* a arrives first with the latest event, 40 s after b's first and 20 s
\* after b's second: only the second pair is within the window
C23_Witness ==
    /\ pc = "botnet"
    /\ Len(batch.rows) = 3
    /\ <<batch.rows[1].device_id, batch.rows[2].device_id, batch.rows[3].device_id>>
           = <<"a", "b", "b">>
    /\ <<batch.rows[1].timestamp, batch.rows[2].timestamp, batch.rows[3].timestamp>>
           = <<40, 0, 20>>
    /\ FracLe(cfg.inference_threshold, Likelihood(batch.rows[1], batch.rows[2]))
    /\ HasEdge(graph, "a", "b")
    /\ graph.eattr[<<"a", "b">>].count = 1
    /\ ~HasEdge(graph, "b", "a")

\* the events that name the target e[2] for the device e[1]
ExplicitMerges(rows, e) ==
    {i \in DOMAIN rows :
        HasTarget(rows, i) /\ <<IdOf(rows, i), Strip(rows[i].comm_target)>> = e}

\* the pairs of an event of e[1] and an event of e[2] that the inference
\* pass merges into the edge e
InferMerges(c, rows, e) ==
    {q \in (DOMAIN rows) \X (DOMAIN rows) :
        /\ c.inference_enabled
        /\ IdOf(rows, q[1]) = e[1]
        /\ IdOf(rows, q[2]) = e[2]
        /\ NormTs(rows[q[1]].timestamp) - NormTs(rows[q[2]].timestamp)
               \in -c.inference_time_window_sec .. c.inference_time_window_sec
        /\ FracLe(c.inference_threshold, Likelihood(rows[q[1]], rows[q[2]]))}

\* the sum of f over S, for f >= 0
Total(S, f) == BagCardinality([x \in S |-> f[x] + 1]) - Cardinality(S)

\* what the events merged into e add up to in the field named by pick
MergedTotal(c, rows, e, pick(_)) ==
    Total(ExplicitMerges(rows, e), [i \in DOMAIN rows |-> pick(rows[i])])
    + Total(InferMerges(c, rows, e),
            [q \in (DOMAIN rows) \X (DOMAIN rows) |-> pick(rows[q[1]])])

PacketsOf(row) == SafeNum(row.packet_rate)
OutKbOf(row) == SafeNum(row.network_out_kb)

---------------------------------------------------------------------------
(* Anomaly indicators in every accepted form: device a reports with or     *)
(* without the target c under a label, a boolean field that overrules the  *)
(* label, or an attack kind; device b reports under a label only.          *)

MaxLabelLen == 3

\* the indicator fields <<is_anomalous, is_anomaly, label, attack_label>>
Indicators ==
    {<<"NA", "NA", "Normal", "">>, <<"NA", "NA", "Anomaly", "">>,
     <<"False", "NA", "Anomaly", "">>, <<"NA", "True", "Normal", "">>,
     <<"NA", "NA", "Unknown", "DoS">>}

LabelEv(d, t, f) ==
    [Ev(d, t, f[3], 20, 5, 10, 0) EXCEPT
        !.is_anomalous = f[1], !.is_anomaly = f[2], !.attack_label = f[4]]

LabelEvents ==
    {LabelEv("a", t, f) : t \in {NoneV, "c"}, f \in Indicators}
    \cup {LabelEv("b", NoneV, f) : f \in {<<"NA", "NA", "Normal", "">>,
                                          <<"NA", "NA", "Anomaly", "">>}}

InitLabels ==
    \E rows \in SeqsUpTo(LabelEvents, MaxLabelLen) :
        InitWith(DefaultCfg, <<[via |-> "direct", rows |-> rows]>>)

SpecLabels == InitLabels /\ [][Next]_vars

\* C25: after a build a node is flagged anomalous exactly when some event
\* of the batch for that device resolves to anomalous, whatever the order
\* of the events; a node that exists only as a target is not flagged
C25_FlagIsOrOfEvents ==
    pc = "botnet" =>
        \A n \in NodeSet(graph) :
            graph.nattr[n].is_anomalous <=>
                \E i \in DOMAIN batch.rows :
                    IdOf(batch.rows, i) = n /\ IsAnomalousLabel(batch.rows[i])

\* device a reported an anomaly and then a normal event that names c
C25_Witness ==
    /\ pc = "botnet"
    /\ Len(batch.rows) >= 2
    /\ batch.rows[1].device_id = "a" /\ IsAnomalousLabel(batch.rows[1])
    /\ batch.rows[2].device_id = "a" /\ ~IsAnomalousLabel(batch.rows[2])
    /\ batch.rows[2].comm_target = "c"
    /\ graph.nattr["a"].is_anomalous
    /\ IsPlaceholder(graph, "c")

\* the devices of a critical list, in order
ListedIds(list) == [i \in DOMAIN list |-> list[i].device_id]

\* list is what the claim allows for the scores b of the nodes of G
CriticalListOk(G, b, ids) ==
    /\ Len(ids) <= MaxCritical
    /\ \A i \in DOMAIN ids : ids[i] \in NodeSet(G) /\ FracLe(MinScore, b[ids[i]])
    /\ \A i, j \in DOMAIN ids : i < j => (ids[i] # ids[j] /\ FracLe(b[ids[j]], b[ids[i]]))
    /\ \A v \in NodeSet(G) \ SeqToSet(ids) :
          FracLe(MinScore, b[v]) =>
              /\ Len(ids) = MaxCritical
              /\ \A i \in DOMAIN ids : FracLe(b[v], b[ids[i]])

\* C26: the critical-device list is empty for a graph of fewer than 3
\* nodes; otherwise it holds only nodes of betweenness at least 0.08, in
\* non-increasing order of score, at most 10 of them, and it leaves out a
\* node of score at least 0.08 only when 10 nodes that score no less are listed
C26_CriticalList ==
    pc \in {"health", "isolated", "export", "return"} =>
        IF NumNodes(graph) < 3 THEN res.critical = <<>>
        ELSE CriticalListOk(graph, Betweenness(graph), ListedIds(res.critical))

\* a one-way chain of 13 devices: the 11 inner ones qualify, 10 are listed
C26_Witness ==
    /\ pc = "health"
    /\ NumNodes(graph) = 13
    /\ ~HasEdge(graph, "d13", "d1")
    /\ ~HasEdge(graph, "d2", "d1")
    /\ Len(res.critical) = MaxCritical
    /\ res.critical[1].device_id = "d7"
    /\ "d12" \notin SeqToSet(ListedIds(res.critical))

\* the batch without the records that have no device id
WithIds(rows) == SelectSeq(rows, LAMBDA r : IdOf(<<r>>, 1) # "")

\* C27: a record whose device id is missing or blank is ignored: the graph
\* built from a batch equals the graph built from the batch without such
\* records, with inference enabled or disabled, and the call comes back
C27_RecordsWithoutIdIgnored ==
    pc = "botnet" =>
        graph = BuildCommunicationGraph(cfg, <<>>, WithIds(batch.rows)).G

---------------------------------------------------------------------------
(* A caller that builds the graph and then calls the public methods of the *)
(* analyzer itself, in any order and as often as MaxFreeCalls allows; pc   *)
(* is "open" while the built graph is at the caller's disposal.            *)

MaxFreeCalls == 3

\* hubs of 3 or 4 targets with at most one bystander
CallBatches ==
    {FleetRows(p[1], p[2], p[3], p[4], p[5]) :
        p \in {q \in FleetShapes : q[1] \in 3..4 /\ q[3] <= 1}}

\* build_communication_graph called by itself
BuildOnly ==
    /\ pc = "idle"
    /\ requests # <<>>
    /\ batch' = Head(requests)
    /\ LET st == BuildCommunicationGraph(cfg, edge_agg, Head(requests).rows)
       IN  /\ graph' = st.G
           /\ edge_agg' = st.agg
    /\ res' = NoResults
    /\ pc' = "open"
    /\ requests' = Tail(requests)
    /\ UNCHANGED <<cfg, response, calls>>

\* one more call on the built graph
FreeCall ==
    /\ pc = "open"
    /\ calls < MaxFreeCalls
    /\ calls' = calls + 1
    /\ UNCHANGED <<requests, cfg, edge_agg, pc, batch, response>>

CallBotnet ==
    /\ FreeCall
    /\ res' = [res EXCEPT !.botnet = BotnetResults(graph)]
    /\ graph' = BotnetRelabel(graph)

CallLateral ==
    /\ FreeCall
    /\ LateralStep(UniquePaths(graph))

CallCoordinated ==
    /\ FreeCall
    /\ res' = [res EXCEPT !.coordinated = CoordinatedResults(graph)]
    /\ UNCHANGED graph

CallCritical ==
    /\ FreeCall
    /\ res' = [res EXCEPT !.critical = CriticalDevices(graph)]
    /\ UNCHANGED graph

CallHealth ==
    /\ FreeCall
    /\ res' = [res EXCEPT !.health = HealthScore(graph)]
    /\ UNCHANGED graph

CallIsolated ==
    /\ FreeCall
    /\ res' = [res EXCEPT !.isolated = IsolatedDevices(graph)]
    /\ UNCHANGED graph

CallExport ==
    /\ FreeCall
    /\ res' = [res EXCEPT !.export = ExportForFrontend(graph)]
    /\ graph' = BotnetRelabel(graph)

NextCalls ==
    \/ BuildOnly
    \/ CallBotnet
    \/ CallLateral
    \/ CallCoordinated
    \/ CallCritical
    \/ CallHealth
    \/ CallIsolated
    \/ CallExport

InitCalls ==
    \E rows \in CallBatches :
        InitWith(DefaultCfg, <<[via |-> "direct", rows |-> rows]>>)

SpecCalls == InitCalls /\ [][NextCalls]_vars

\* the graph as build_communication_graph left it for the current batch
Built == BuildCommunicationGraph(cfg, <<>>, batch.rows).G

\* G differs from G0 in edge types only, and only by c2 and lateral
SameButTypes(G, G0) ==
    /\ G.nodes = G0.nodes
    /\ G.nattr = G0.nattr
    /\ G.edges = G0.edges
    /\ DOMAIN G.eattr = DOMAIN G0.eattr
    /\ \A e \in DOMAIN G.eattr :
          /\ [G.eattr[e] EXCEPT !.type = "explicit"] = [G0.eattr[e] EXCEPT !.type = "explicit"]
          /\ G.eattr[e].type \in {G0.eattr[e].type, "c2", "lateral"}

\* every result held is the one its method returns on the graph G0
ResultsOf(G0) ==
    /\ res.botnet \in {NoBotnet, BotnetResults(G0)}
    /\ res.lateral = NoLateral
          \/ \E entry \in EntryChoices(UniquePaths(G0)) :
                res.lateral = LateralResults(UniquePaths(G0), entry)
    /\ res.coordinated \in {NoCoordinated, CoordinatedResults(G0)}
    /\ res.critical \in {<<>>, CriticalDevices(G0)}
    /\ res.health \in {0, HealthScore(G0)}
    /\ res.isolated \in {<<>>, IsolatedDevices(G0)}

\* C28: whatever detectors, scorer and exporter ran after a build, in any
\* order and any number of times, the graph still has the nodes, edges,
\* node attributes and edge weights, counts and sums of the build, an edge
\* type differs from the built one only by being c2 or lateral, and every
\* result returned is the one the method returns on the built graph
C28_DetectorsKeepGraph ==
    pc = "open" => (SameButTypes(graph, Built) /\ ResultsOf(Built))

\* the health scorer, the botnet and the lateral detector have run, the
\* lateral detector after the botnet detector had labelled the hub's edges
C28_Witness ==
    /\ pc = "open"
    /\ calls = MaxFreeCalls
    /\ res.botnet.botnet_detected
    /\ res.lateral.lateral_movement_detected
    /\ res.health # 0
    /\ \E e \in EdgeSet(graph) : graph.eattr[e].type = "lateral"
    /\ \E e \in EdgeSet(graph) : graph.eattr[e].type = "c2"

EndsOf(links, k) == <<links[k].source, links[k].target>>

\* the exported graph of analysis a describes G, and a's summary counts it
ExportAgrees(G, a, nodes, links) ==
    /\ Len(nodes) = NumNodes(G)
    /\ {nodes[i].id : i \in DOMAIN nodes} = NodeSet(G)
    /\ Len(links) = NumEdges(G)
    /\ {EndsOf(links, k) : k \in DOMAIN links} = EdgeSet(G)
    /\ a.network_summary.total_devices = Len(nodes)
    /\ a.network_summary.total_connections = Len(links)
    /\ \A i \in DOMAIN nodes :
          /\ nodes[i].in = Cardinality({k \in DOMAIN links : links[k].target = nodes[i].id})
          /\ nodes[i].out = Cardinality({k \in DOMAIN links : links[k].source = nodes[i].id})
    /\ \A k \in DOMAIN links : links[k].type \in {"explicit", "inferred", "c2", "lateral"}

\* C30: in every result of analyze_network the exported graph has one node
\* record per node and one edge record per edge of the graph, the summary's
\* total_devices and total_connections count those records, every node
\* record's in and out count the edge records that target and leave it, and
\* every edge record's type is explicit, inferred, c2 or lateral
C30_ExportAgreesWithSummary ==
    Returned =>
        ExportAgrees(graph, response.analysis, response.analysis.graph.nodes,
                     ResponseEdges(response))

\* a result whose export holds c2 and lateral edges and a node with edges
\* in both directions
C30_Witness ==
    /\ Returned
    /\ NumNodes(graph) >= 4
    /\ \E k \in DOMAIN ResponseEdges(response) : ResponseEdges(response)[k].type = "c2"
    /\ \E k \in DOMAIN ResponseEdges(response) : ResponseEdges(response)[k].type = "lateral"
    /\ \E i \in DOMAIN response.analysis.graph.nodes :
          /\ response.analysis.graph.nodes[i].in >= 1
          /\ response.analysis.graph.nodes[i].out > response.analysis.graph.nodes[i].in

============================================================================
